---------------------------- MODULE Spec2Model ----------------------------
(***************************************************************************)
(* A model of generate_html.py: the poem markup parser, the corpus model   *)
(* builder, the HTML renderer, the pagination controller, the table of     *)
(* contents and the Atom feed.                                             *)
(*                                                                         *)
(* Text is a sequence of one-character strings, so that splitting,         *)
(* stripping, matching and escaping are computed character by character,   *)
(* as the Python string methods compute them.  Rendered HTML is a sequence *)
(* of fragments whose concatenation is the text written to the file: the   *)
(* literal pieces of the code's templates are multi-character fragments,   *)
(* the data interpolated into them is kept character by character.         *)
(***************************************************************************)
EXTENDS Integers, Sequences, FiniteSets, TLC

VARIABLES
    argc,               \* len(sys.argv)
    content,            \* the text of the input file
    clock,              \* the wall-clock second of the run (every reading of
                        \* the clock in one run falls in the same second)
    fs_images,          \* the file names that exist under images/
    pc,                 \* the position of main(), or of a single call
    structured_blocks,  \* main's structured_blocks
    total_pages,        \* main's total_pages
    page_num,           \* main's loop variable
    files,              \* the HTML files written, in the order of the writes
    atom,               \* <<>>, or <<the element tree written to atom.xml>>
    arg,                \* the argument of a single call of a pure function
    ret                 \* its result

vars == <<argc, content, clock, fs_images, pc, structured_blocks, total_pages,
          page_num, files, atom, arg, ret>>

(***************************************************************************)
(* Bounds of the model.                                                    *)
(***************************************************************************)
MaxBlocks == 32        \* blocks of the long corpora
MaxSmall == 2          \* blocks of the corpora mixed freely from BlockTexts
MaxClock == 1          \* the latest wall-clock second a run starts at
MaxSplitPieces == 5    \* pieces of a text given to the block splitter
MaxUnitLines == 3      \* lines of a unit given to parse_poem_unit
MaxTokenLen == 5       \* characters after top: or left:
MaxTextLen == 4        \* characters of a text given to html_escape
MaxBlockLines == 3     \* lines of a block given to a renderer

(***************************************************************************)
(* Python's str methods on sequences of characters.                        *)
(***************************************************************************)
None == <<>>

Whitespace == {" ", "\n", "\t", "\r"}

MinOf(S) == CHOOSE x \in S : \A y \in S : x <= y

MaxOf(S) == CHOOSE x \in S : \A y \in S : x >= y

\* str.find(sep): the first index at which sep occurs in s, 0 when none.
Find(s, sep) ==
    LET hits == {j \in 1..(Len(s) - Len(sep) + 1) :
                    SubSeq(s, j, j + Len(sep) - 1) = sep}
    IN  IF hits = {} THEN 0 ELSE MinOf(hits)

\* str.split(sep): left to right, at every non-overlapping occurrence.
RECURSIVE Split(_, _)
Split(s, sep) ==
    LET j == Find(s, sep)
    IN  IF j = 0 THEN <<s>>
        ELSE <<SubSeq(s, 1, j - 1)>> \o Split(SubSeq(s, j + Len(sep), Len(s)), sep)

\* str.split(sep, 1): at the first occurrence only.
Split1(s, sep) ==
    LET j == Find(s, sep)
    IN  IF j = 0 THEN <<s>>
        ELSE <<SubSeq(s, 1, j - 1), SubSeq(s, j + Len(sep), Len(s))>>

\* str.strip()
Strip(s) ==
    LET keep == {i \in 1..Len(s) : s[i] \notin Whitespace}
    IN  IF keep = {} THEN <<>> ELSE SubSeq(s, MinOf(keep), MaxOf(keep))

\* str.replace(c, new) for a one-character c.
RECURSIVE Replace(_, _, _)
Replace(s, c, new) ==
    IF s = <<>> THEN <<>>
    ELSE (IF Head(s) = c THEN new ELSE <<Head(s)>>) \o Replace(Tail(s), c, new)

\* sep.join(parts)
RECURSIVE Join(_, _)
Join(parts, sep) ==
    IF parts = <<>> THEN <<>>
    ELSE IF Len(parts) = 1 THEN parts[1]
    ELSE parts[1] \o sep \o Join(Tail(parts), sep)

\* [x.strip() for x in parts if x.strip()]
RECURSIVE StripNonEmpty(_)
StripNonEmpty(parts) ==
    IF parts = <<>> THEN <<>>
    ELSE (IF Strip(Head(parts)) = <<>> THEN <<>> ELSE <<Strip(Head(parts))>>)
         \o StripNonEmpty(Tail(parts))

POEMS_PER_PAGE == 5

(***************************************************************************)
(* html_escape                                                             *)
(***************************************************************************)
\* A variant that replaces the ampersands last.
html_escape_amp_last(text) ==
    Replace(Replace(Replace(text, "<", <<"&", "l", "t", ";">>),
                    ">", <<"&", "g", "t", ";">>),
            "&", <<"&", "a", "m", "p", ";">>)

html_escape(text) ==
    Replace(Replace(Replace(text, "&", <<"&", "a", "m", "p", ";">>),
                    "<", <<"&", "l", "t", ";">>),
            ">", <<"&", "g", "t", ";">>)

(***************************************************************************)
(* parse_image: re.match(r"([^[\]]+)(?:\[(\d+)\])?", img_str.strip()).     *)
(* re.match anchors the pattern at the start of the string only.  Group 1  *)
(* is greedy and no character it takes can start the optional group, so it *)
(* is the longest prefix without a bracket; the optional group takes       *)
(* "[digits]" when that follows at once, and nothing otherwise.  There is  *)
(* no match exactly when the prefix is empty.                              *)
(***************************************************************************)
Digits == {"0", "1", "2", "3", "4", "5", "6", "7", "8", "9"}

Brackets == {"[", "]"}

\* The length of the longest prefix of s all of whose characters are in S.
PrefixLen(s, S) ==
    LET stops == {i \in 1..Len(s) : s[i] \notin S}
    IN  IF stops = {} THEN Len(s) ELSE MinOf(stops) - 1

\* The text of group 2 when "[digits]" starts at index i of s, None otherwise.
WidthAt(s, i) ==
    IF i <= Len(s) /\ s[i] = "["
    THEN LET rest == SubSeq(s, i + 1, Len(s))
             n == PrefixLen(rest, Digits)
         IN  IF n >= 1 /\ n + 1 <= Len(rest) /\ rest[n + 1] = "]"
             THEN SubSeq(rest, 1, n)
             ELSE None
    ELSE None

\* ok = FALSE stands for the ValueError raised.
parse_image(img_str) ==
    LET s == Strip(img_str)
        n == PrefixLen(s, {s[i] : i \in 1..Len(s)} \ Brackets)
    IN  IF n = 0
        THEN [ok |-> FALSE, filename |-> <<>>, width |-> None]
        ELSE [ok |-> TRUE, filename |-> Strip(SubSeq(s, 1, n)),
              width |-> WidthAt(s, n + 1)]

(***************************************************************************)
(* parse_poem_unit.  A result with ok = FALSE stands for the ValueError of *)
(* parse_image propagating out of the function: nothing else is returned.  *)
(***************************************************************************)
S_link == <<"l", "i", "n", "k">>

S_audio == <<"a", "u", "d", "i", "o">>

S_top == <<"t", "o", "p">>

S_left == <<"l", "e", "f", "t">>

\* for m in media_items: parsed_media.append(parse_image(m))
RECURSIVE ParseMediaItems(_)
ParseMediaItems(media_items) ==
    IF media_items = <<>> THEN [ok |-> TRUE, items |-> <<>>]
    ELSE LET media_info == parse_image(Head(media_items))
             more == ParseMediaItems(Tail(media_items))
         IN  IF ~media_info.ok \/ ~more.ok
             THEN [ok |-> FALSE, items |-> <<>>]
             ELSE [ok |-> TRUE,
                   items |-> <<[filename |-> media_info.filename,
                                width |-> media_info.width]>> \o more.items]

Raised == [ok |-> FALSE, links |-> <<>>, media |-> <<>>, audio |-> <<>>,
           poem_lines |-> <<>>]

\* A variant of ParseLine that does not require the colon.
ParseLineColonOptional(u, line) ==
    LET parts == Split1(line, <<":">>)
        prefix == Strip(parts[1])
        rest == IF Len(parts) = 2 THEN parts[2] ELSE <<>>
    IN  IF prefix = S_link
        THEN [u EXCEPT !.links = Append(@, Strip(rest))]
        ELSE IF prefix = S_audio
        THEN [u EXCEPT !.audio = Append(@, Strip(rest))]
        ELSE IF prefix \in {S_top, S_left}
        THEN LET parsed == ParseMediaItems(StripNonEmpty(Split(rest, <<",">>)))
             IN  IF ~parsed.ok THEN Raised
                 ELSE [u EXCEPT !.media = Append(@,
                          [placement |-> IF prefix = S_top THEN "top" ELSE "left",
                           items |-> parsed.items])]
        ELSE [u EXCEPT !.poem_lines = Append(@, line)]

\* One iteration of the loop over the lines, on the unit collected so far.
ParseLine(u, line) ==
    LET parts == Split1(line, <<":">>)
        prefix == Strip(parts[1])
    IN  IF prefix = S_link /\ Len(parts) = 2
        THEN [u EXCEPT !.links = Append(@, Strip(parts[2]))]
        ELSE IF prefix = S_audio /\ Len(parts) = 2
        THEN [u EXCEPT !.audio = Append(@, Strip(parts[2]))]
        ELSE IF prefix \in {S_top, S_left} /\ Len(parts) = 2
        THEN LET parsed == ParseMediaItems(StripNonEmpty(Split(parts[2], <<",">>)))
             IN  IF ~parsed.ok THEN Raised
                 ELSE [u EXCEPT !.media = Append(@,
                          [placement |-> IF prefix = S_top THEN "top" ELSE "left",
                           items |-> parsed.items])]
        ELSE [u EXCEPT !.poem_lines = Append(@, line)]

RECURSIVE ParseLines(_, _)
ParseLines(u, lines) ==
    IF lines = <<>> \/ ~u.ok THEN u
    ELSE ParseLines(ParseLine(u, Head(lines)), Tail(lines))

parse_poem_unit(poem_unit) ==
    LET lines == Split(Strip(poem_unit), <<"\n">>)
        empty == [ok |-> TRUE, links |-> <<>>, media |-> <<>>, audio |-> <<>>,
                  poem_lines |-> <<>>]
    IN  IF lines = <<>> THEN empty   \* never taken: split returns at least <<"">>
        ELSE ParseLines(empty, lines)

(***************************************************************************)
(* parse_poems_to_structured_data.  ok = FALSE: the ValueError propagates. *)
(***************************************************************************)
RECURSIVE ParseUnits(_)
ParseUnits(units) ==
    IF units = <<>> THEN [ok |-> TRUE, units |-> <<>>]
    ELSE LET unit_data == parse_poem_unit(Head(units))
             more == ParseUnits(Tail(units))
         IN  IF ~unit_data.ok \/ ~more.ok
             THEN [ok |-> FALSE, units |-> <<>>]
             ELSE [ok |-> TRUE,
                   units |-> <<[links |-> unit_data.links,
                                media |-> unit_data.media,
                                audio |-> unit_data.audio,
                                poem_lines |-> unit_data.poem_lines]>>
                             \o more.units]

\* The loop over enumerate(content_blocks), from index i (0-based) on.
RECURSIVE ParseBlocks(_, _, _)
ParseBlocks(content_blocks, i, total_poems) ==
    IF i >= Len(content_blocks) THEN [ok |-> TRUE, blocks |-> <<>>]
    ELSE LET parsed == ParseUnits(StripNonEmpty(Split(content_blocks[i + 1],
                                                      <<"-", "-", "-">>)))
             more == ParseBlocks(content_blocks, i + 1, total_poems)
         IN  IF ~parsed.ok \/ ~more.ok
             THEN [ok |-> FALSE, blocks |-> <<>>]
             ELSE [ok |-> TRUE,
                   blocks |-> <<[units |-> parsed.units,
                                 poem_number |-> total_poems - i]>>
                              \o more.blocks]

\* A variant that numbers the blocks in source order, from 1.
NumberBlocksFromOne(content_blocks) ==
    LET r == ParseBlocks(content_blocks, 0, Len(content_blocks))
    IN  [r EXCEPT !.blocks =
            [k \in 1..Len(r.blocks) |-> [r.blocks[k] EXCEPT !.poem_number = k]]]

\* poem_number = total_poems - i for every block
NumberBlocks(content_blocks) ==
    ParseBlocks(content_blocks, 0, Len(content_blocks))

\* [b.strip() for b in content.split('===') if b.strip()]
ContentBlocks(text) == StripNonEmpty(Split(text, <<"=", "=", "=">>))

parse_poems_to_structured_data(text) == NumberBlocks(ContentBlocks(text))


(***************************************************************************)
(* The media classifier: os.path.splitext, os.path.basename, str.lower.    *)
(***************************************************************************)
LastIndex(s, c) ==
    LET hits == {i \in 1..Len(s) : s[i] = c}
    IN  IF hits = {} THEN 0 ELSE MaxOf(hits)

\* os.path.splitext: the extension starts at the last dot of the last path
\* component, unless only dots precede it there.
splitext(p) ==
    LET sep == LastIndex(p, "/")
        dot == LastIndex(p, ".")
    IN  IF dot > sep /\ \E k \in (sep + 1)..(dot - 1) : p[k] # "."
        THEN <<SubSeq(p, 1, dot - 1), SubSeq(p, dot, Len(p))>>
        ELSE <<p, <<>>>>

basename(p) == SubSeq(p, LastIndex(p, "/") + 1, Len(p))

UpperCase == <<"A", "B", "C", "D", "E", "F", "G", "H", "I", "J", "K", "L", "M",
               "N", "O", "P", "Q", "R", "S", "T", "U", "V", "W", "X", "Y", "Z">>

LowerCase == <<"a", "b", "c", "d", "e", "f", "g", "h", "i", "j", "k", "l", "m",
               "n", "o", "p", "q", "r", "s", "t", "u", "v", "w", "x", "y", "z">>

lower(s) ==
    [i \in 1..Len(s) |->
        IF \E k \in 1..26 : UpperCase[k] = s[i]
        THEN LowerCase[CHOOSE k \in 1..26 : UpperCase[k] = s[i]]
        ELSE s[i]]

E_mp4 == <<".", "m", "p", "4">>

E_webm == <<".", "w", "e", "b", "m">>

E_ogg == <<".", "o", "g", "g">>

E_mov == <<".", "m", "o", "v">>

is_video_file(filename) ==
    lower(splitext(filename)[2]) \in {E_mp4, E_webm, E_ogg, E_mov}

get_audio_mime_type(filename) ==
    LET ext == lower(splitext(filename)[2])
    IN  IF ext = <<".", "m", "p", "3">> THEN "audio/mpeg"
        ELSE IF ext = <<".", "w", "a", "v">> THEN "audio/wav"
        ELSE IF ext = E_ogg THEN "audio/ogg"
        ELSE IF ext = <<".", "m", "4", "a">> THEN "audio/mp4"
        ELSE IF ext = <<".", "a", "a", "c">> THEN "audio/aac"
        ELSE IF ext = E_webm THEN "audio/webm"
        ELSE IF ext = <<".", "f", "l", "a", "c">> THEN "audio/flac"
        ELSE "audio/mpeg"

get_video_mime_type(filename) ==
    LET ext == lower(splitext(filename)[2])
    IN  IF ext = E_mp4 THEN "video/mp4"
        ELSE IF ext = E_webm THEN "video/webm"
        ELSE IF ext = E_ogg THEN "video/ogg"
        ELSE IF ext = E_mov THEN "video/quicktime"
        ELSE "video/mp4"

(***************************************************************************)
(* The HTML renderer.                                                      *)
(***************************************************************************)
\* Concatenation of a sequence of sequences.
RECURSIVE Concat(_)
Concat(seqs) == IF seqs = <<>> THEN <<>> ELSE Head(seqs) \o Concat(Tail(seqs))

generate_media_html(media_info) ==
    LET filename == media_info.filename
        width == media_info.width
        alt == Replace(splitext(basename(filename))[1], "_", <<" ">>)
        style == IF width # None
                 THEN <<" style=\"width:">> \o width \o <<"px\"">>
                 ELSE <<>>
    IN  IF is_video_file(filename)
        THEN <<"<video src=\"images/">> \o filename
             \o <<"\" type=\"", get_video_mime_type(filename), "\" controls loop">>
             \o style
             \o <<" preload=\"metadata\">Your browser does not support the video tag.</video>">>
        ELSE <<"<img src=\"images/">> \o filename \o <<"\" alt=\"">> \o alt
             \o <<"\" class=\"poem-image\"">> \o style \o <<">">>

has_left_placement(unit_data) ==
    \E g \in 1..Len(unit_data.media) : unit_data.media[g].placement = "left"

LinkHtml(url) ==
    <<"  <a href=\"">> \o url \o <<"\" target=\"_blank\">">> \o url \o <<"</a>\n">>

\* The html of one media group of the given placement, nothing for the other.
GroupHtml(media_group, placement, open) ==
    IF media_group.placement # placement THEN <<>>
    ELSE <<open>>
         \o Concat([k \in 1..Len(media_group.items) |->
                      <<"    ">> \o generate_media_html(media_group.items[k])
                      \o <<"\n">>])
         \o <<"  </div>\n">>

PreHtml(poem_lines) ==
    IF poem_lines = <<>> THEN <<>>
    ELSE <<"  <pre>">> \o html_escape(Join(poem_lines, <<"\n">>)) \o <<"</pre>\n">>

\* A variant that adds the links after the left media.
generate_unit_html_links_last(unit_data) ==
    (IF has_left_placement(unit_data)
     THEN Concat([g \in 1..Len(unit_data.media) |->
                     GroupHtml(unit_data.media[g], "left",
                               "  <div class=\"image-column\">\n")])
     ELSE <<>>)
    \o Concat([k \in 1..Len(unit_data.links) |-> LinkHtml(unit_data.links[k])])
    \o PreHtml(unit_data.poem_lines)

generate_unit_html(unit_data) ==
    Concat([k \in 1..Len(unit_data.links) |-> LinkHtml(unit_data.links[k])])
    \o (IF has_left_placement(unit_data)
        THEN Concat([g \in 1..Len(unit_data.media) |->
                        GroupHtml(unit_data.media[g], "left",
                                  "  <div class=\"image-column\">\n")])
        ELSE <<>>)
    \o PreHtml(unit_data.poem_lines)

AudioHtml(audio_file) ==
    <<"  <audio controls preload=\"metadata\" style=\"width: 100%; max-width: 400px; margin: 10px 0;\">\n",
      "    <source src=\"audio/">> \o audio_file
    \o <<"\" type=\"", get_audio_mime_type(audio_file), "\">\n",
         "    Your browser does not support the audio element.\n",
         "  </audio>\n">>

\* A variant that puts the top media inside the unit container.
FullUnitHtmlTopInside(unit_data) ==
    LET unit_html == generate_unit_html(unit_data)
        unit_class == IF has_left_placement(unit_data)
                      THEN "poem-unit left-image" ELSE "poem-unit"
        top_html == Concat([g \in 1..Len(unit_data.media) |->
                              GroupHtml(unit_data.media[g], "top",
                                        "  <div class=\"image-row\">\n")])
        audio_html == Concat([k \in 1..Len(unit_data.audio) |->
                                AudioHtml(unit_data.audio[k])])
    IN  <<"<div class=\"", unit_class, "\">\n">> \o top_html \o unit_html
        \o <<"</div>">>
        \o (IF audio_html # <<>> THEN <<"\n">> \o audio_html ELSE <<>>)

\* full_unit_html of one unit
FullUnitHtml(unit_data) ==
    LET unit_html == generate_unit_html(unit_data)
        unit_class == IF has_left_placement(unit_data)
                      THEN "poem-unit left-image" ELSE "poem-unit"
        top_html == Concat([g \in 1..Len(unit_data.media) |->
                              GroupHtml(unit_data.media[g], "top",
                                        "  <div class=\"image-row\">\n")])
        audio_html == Concat([k \in 1..Len(unit_data.audio) |->
                                AudioHtml(unit_data.audio[k])])
    IN  top_html
        \o <<"<div class=\"", unit_class, "\">\n">> \o unit_html \o <<"</div>">>
        \o (IF audio_html # <<>> THEN <<"\n">> \o audio_html ELSE <<>>)

generate_block_html(block_data) ==
    LET unit_htmls == [k \in 1..Len(block_data.units) |->
                          FullUnitHtml(block_data.units[k])]
        poem_number == ToString(block_data.poem_number)
    IN  <<"<div class=\"poem-block\"", " id=\"poem-", poem_number, "\"", ">\n",
          "<div class=\"poem-number\">", poem_number, "</div>\n">>
        \o Join(unit_htmls, <<"\n<br>\n">>)
        \o <<"\n</div>">>


(***************************************************************************)
(* write_html_header and write_image_enlargement_script.  css_version is   *)
(* int(time.time()).  The static text of the script is one fragment.       *)
(***************************************************************************)
write_html_header(title, show_toc_link, now) ==
    <<"<!DOCTYPE html>\n<html lang=\"en\">\n<head>\n  <meta charset=\"UTF-8\">\n",
      "  <title>", title, "</title>\n",
      "  <meta http-equiv=\"Cache-Control\" content=\"no-store, no-cache, must-revalidate\">\n  <meta http-equiv=\"Pragma\" content=\"no-cache\">\n  <meta http-equiv=\"Expires\" content=\"0\">\n",
      "  <link rel=\"stylesheet\" href=\"style.css?v=", ToString(now), "\">\n",
      "  <link rel=\"alternate\" type=\"application/atom+xml\" title=\"Everyday Majestic Musings\" href=\"atom.xml\">\n</head>\n<body>\n  <header class=\"banner\">\n    <h1><a href=\"/\" style=\"color: inherit; text-decoration: none;\">Everyday Majestic Musings</a></h1>\n",
      "    <",
      IF show_toc_link THEN "a href=\"poems.html\"" ELSE "div",
      " class=\"table-of-contents-link\"",
      IF show_toc_link THEN "" ELSE " style=\"visibility: hidden;\"",
      ">Go to Table of Contents</",
      IF show_toc_link THEN "a" ELSE "div",
      ">\n",
      "  </header>\n">>

write_image_enlargement_script ==
    <<"  <script>\n", "document.addEventListener('DOMContentLoaded', ...)",
      "  </script>\n">>

(***************************************************************************)
(* The pagination controller: write_page, and the arithmetic of main.      *)
(***************************************************************************)
\* 'index.html' if page_num == 1 else f'page{page_num}.html'
PageFile(n) == IF n = 1 THEN "index.html" ELSE "page" \o ToString(n) \o ".html"

\* A variant that never names index.html.
PrevFileNoIndex(n) == "page" \o ToString(n - 1) \o ".html"

PrevFile(n) == IF n = 2 THEN "index.html" ELSE "page" \o ToString(n - 1) \o ".html"

NextFile(n) == "page" \o ToString(n + 1) \o ".html"

ShowsPrev(n) == n > 1

ShowsNext(n, total) == n < total

IsLastPage(n, total) == n = total

\* The file write_page writes: its name and its text.
write_page(blocks, n, total, now) ==
    [name |-> PageFile(n),
     html |->
        write_html_header("Everyday Majestic Musings", TRUE, now)
        \o <<"  <main>\n">>
        \o Concat([k \in 1..Len(blocks) |->
                      generate_block_html(blocks[k]) \o <<"\n    <hr>\n">>])
        \o (IF IsLastPage(n, total) THEN <<"The end.\n">> ELSE <<>>)
        \o <<"<div class=\"pagination\" style=\"text-align:center;margin:2em 0 1em 0;font-size:1.2em;\">\n">>
        \o (IF ShowsPrev(n)
            THEN <<"<a href=\"", PrevFile(n), "\">&laquo; Prev</a> ">>
            ELSE <<>>)
        \o <<" Page ", ToString(n), " of ", ToString(total), " ">>
        \o (IF ShowsNext(n, total)
            THEN <<"<a href=\"", NextFile(n), "\">Next &raquo;</a>">>
            ELSE <<>>)
        \o <<"</div>\n",
             "<div style=\"text-align:center;margin:2em 0 1em 0;\">\n<a href=\"atom.xml\" style=\"color: #6b4c7a; text-decoration: none; font-size: 0.9em;\">\n<img src=\"images/Feed-icon.svg\" alt=\"Feed icon\" class=\"feed-icon\" style=\"width: 16px; height: 16px; margin-right: 0.3em; vertical-align: middle;\">\nSubscribe via Atom</a>\n</div>\n",
             "  </main>\n">>
        \o write_image_enlargement_script
        \o <<"</body>\n</html>\n">>]

\* (len(structured_blocks) + POEMS_PER_PAGE - 1) // POEMS_PER_PAGE
TotalPages(n) == (n + POEMS_PER_PAGE - 1) \div POEMS_PER_PAGE

\* A variant whose pages start one block early.
PageSliceOverlapping(blocks, n) ==
    LET start == (n - 1) * (POEMS_PER_PAGE - 1)
        end == start + POEMS_PER_PAGE
    IN  SubSeq(blocks, start + 1, IF end < Len(blocks) THEN end ELSE Len(blocks))

\* structured_blocks[start:end] of main
PageSlice(blocks, n) ==
    LET start == (n - 1) * POEMS_PER_PAGE
        end == start + POEMS_PER_PAGE
    IN  SubSeq(blocks, start + 1, IF end < Len(blocks) THEN end ELSE Len(blocks))

(***************************************************************************)
(* The table of contents.                                                  *)
(***************************************************************************)
TrailingPunctuation == {".", "!", "?", ",", ":", ";"}

\* All text lines of a block, unit after unit.
AllPoemLines(block_data) ==
    Concat([k \in 1..Len(block_data.units) |-> block_data.units[k].poem_lines])

S_untitled == <<"U", "n", "t", "i", "t", "l", "e", "d", ".", ".", ".">>

get_first_poem_line(block_data) ==
    LET lines == AllPoemLines(block_data)
        full == {k \in 1..Len(lines) : Strip(lines[k]) # <<>>}
    IN  IF full = {} THEN S_untitled
        ELSE LET first_line == Strip(lines[MinOf(full)])
                 cut == IF first_line[Len(first_line)] \in TrailingPunctuation
                        THEN SubSeq(first_line, 1, Len(first_line) - 1)
                        ELSE first_line
             IN  cut \o <<".", ".", ".">>

ImageExtensions == <<<<".", "j", "p", "g">>, <<".", "j", "p", "e", "g">>,
                     <<".", "p", "n", "g">>, <<".", "g", "i", "f">>,
                     <<".", "w", "e", "b", "p">>>>

\* All media groups of a block, unit after unit.
AllMediaGroups(block_data) ==
    Concat([k \in 1..Len(block_data.units) |-> block_data.units[k].media])

\* The loops of get_first_image over the groups that are left; fs is the set
\* of names for which os.path.exists('images/<name>') holds.
RECURSIVE FirstImageIn(_, _)
FirstImageIn(groups, fs) ==
    IF groups = <<>> THEN None
    ELSE IF Head(groups).items = <<>> THEN FirstImageIn(Tail(groups), fs)
    ELSE LET filename == Head(groups).items[1].filename
             base_name == splitext(filename)[1]
             found == {e \in 1..Len(ImageExtensions) :
                          (base_name \o ImageExtensions[e]) \in fs}
         IN  IF ~is_video_file(filename) THEN filename
             ELSE IF found # {} THEN base_name \o ImageExtensions[MinOf(found)]
             ELSE FirstImageIn(Tail(groups), fs)

get_first_image(block_data, fs) == FirstImageIn(AllMediaGroups(block_data), fs)

\* A variant that counts the pages from 0.
TocPageNumNoPlusOne(i) == i \div POEMS_PER_PAGE

\* page_num = (i // POEMS_PER_PAGE) + 1, for the 0-based position i
TocPageNum(i) == (i \div POEMS_PER_PAGE) + 1

TocEntry(block_data, i, fs) ==
    LET page_file == PageFile(TocPageNum(i))
        first_line == get_first_poem_line(block_data)
        first_image == get_first_image(block_data, fs)
        poem_number == ToString(block_data.poem_number)
    IN  <<"      <li style=\"display: flex; align-items: center; margin-bottom: 0.5em;\"><span style=\"font-weight: bold; min-width: 2.5em; margin-right: 0.5em;\">",
          poem_number, ".</span>">>
        \o (IF first_image # None
            THEN <<"<img src=\"images/">> \o first_image
                 \o <<"\" alt=\"\" style=\"max-width: 96px; max-height: 96px; margin-right: 0.5em; vertical-align: middle; border-radius: 3px; cursor: default;\">">>
            ELSE <<>>)
        \o <<"<a href=\"", page_file, "#poem-", poem_number, "\">">>
        \o html_escape(first_line)
        \o <<"</a></li>\n">>

write_table_of_contents(blocks, fs, now) ==
    [name |-> "poems.html",
     html |->
        write_html_header("Table of Contents - Everyday Majestic Musings", FALSE, now)
        \o <<"  <main>\n", "    <h2>Table of Contents</h2>\n",
             "    <ul style=\"line-height: 1.8; margin-bottom: 2em; list-style: none; padding-left: 0;\">\n">>
        \o Concat([k \in 1..Len(blocks) |-> TocEntry(blocks[k], k - 1, fs)])
        \o <<"    </ul>\n", "  </main>\n", "</body>\n", "</html>\n">>]


(***************************************************************************)
(* The Atom feed.  A datetime is <<year, month, day, second of the day>>;  *)
(* isoformat() writes these fields, most significant first and zero        *)
(* padded, so that the order of the tuples is the order of the instants.   *)
(***************************************************************************)
IsLeap(y) == (y % 4 = 0) /\ ((y % 100 # 0) \/ (y % 400 = 0))

DaysInYear(y) == IF IsLeap(y) THEN 366 ELSE 365

DaysInMonth(y, m) ==
    IF m = 2 THEN (IF IsLeap(y) THEN 29 ELSE 28)
    ELSE IF m \in {4, 6, 9, 11} THEN 30 ELSE 31

\* The date d days (d >= 0) after the first day of month m of year y.
RECURSIVE DateFrom(_, _, _)
DateFrom(y, m, d) ==
    IF d >= DaysInYear(y) /\ m = 1 THEN DateFrom(y + 1, 1, d - DaysInYear(y))
    ELSE IF d >= DaysInMonth(y, m) THEN DateFrom(y, m + 1, d - DaysInMonth(y, m))
    ELSE <<y, m, d + 1>>

\* datetime.now(timezone.utc), now being the seconds since the epoch
UtcNow(now) == Append(DateFrom(1970, 1, now \div 86400), now % 86400)

\* A variant that counts the days from the time of the run.
EntryUpdatedFromNow(poem_number) ==
    Append(DateFrom(1970, 1, (clock \div 86400) + poem_number), clock % 86400)

\* datetime(1970, 1, 1, tzinfo=timezone.utc) + timedelta(days=poem_number)
EntryUpdated(poem_number) == Append(DateFrom(1970, 1, poem_number), 0)

\* Whether datetime a is before datetime b.
Before(a, b) ==
    \E k \in 1..4 : a[k] < b[k] /\ \A j \in 1..(k - 1) : a[j] = b[j]

AtomMediaHtml(media_group, media_info) ==
    LET filename == media_info.filename
        width == media_info.width
        style == IF media_group.placement = "left" /\ width = None
                 THEN <<" style=\"width:280px\"">>
                 ELSE IF width # None
                 THEN <<" style=\"width:">> \o width \o <<"px\"">>
                 ELSE <<>>
    IN  IF is_video_file(filename)
        THEN <<"<p><video src=\"https://invariablyhappy.com/images/">> \o filename
             \o <<"\" type=\"", get_video_mime_type(filename),
                  "\" controls preload=\"metadata\"">>
             \o style
             \o <<">Your browser does not support the video tag.</video></p>">>
        ELSE <<"<p><img src=\"https://invariablyhappy.com/images/">> \o filename
             \o <<"\" alt=\"">> \o splitext(filename)[1] \o <<"\"">> \o style
             \o <<"></p>">>

\* The strings one unit appends to content_html.
AtomUnitContent(unit_data) ==
    [k \in 1..Len(unit_data.links) |->
        <<"<p><a href=\"">> \o unit_data.links[k] \o <<"\">">>
        \o unit_data.links[k] \o <<"</a></p>">>]
    \o Concat([g \in 1..Len(unit_data.media) |->
                 [k \in 1..Len(unit_data.media[g].items) |->
                     AtomMediaHtml(unit_data.media[g], unit_data.media[g].items[k])]])
    \o (IF unit_data.poem_lines # <<>>
        THEN <<<<"<pre>">> \o html_escape(Join(unit_data.poem_lines, <<"\n">>))
               \o <<"</pre>">>>>
        ELSE <<>>)
    \o [k \in 1..Len(unit_data.audio) |->
          <<"<p><audio controls preload=\"metadata\"><source src=\"https://invariablyhappy.com/audio/">>
          \o unit_data.audio[k]
          \o <<"\" type=\"", get_audio_mime_type(unit_data.audio[k]),
               "\">Your browser does not support the audio element.</audio></p>">>]

generate_atom_entry_content(block_data) ==
    Join(Concat([k \in 1..Len(block_data.units) |->
                    AtomUnitContent(block_data.units[k])]),
         <<"\n">>)

\* page_num = (i // POEMS_PER_PAGE) + 1, for the 0-based position i
FeedPageNum(i) == (i \div POEMS_PER_PAGE) + 1

AtomEntry(block_data, i) ==
    [title |-> ToString(block_data.poem_number),
     id |-> ToString(block_data.poem_number),
     updated |-> EntryUpdated(block_data.poem_number),
     link |-> [rel |-> "alternate",
               href |-> <<"https://invariablyhappy.com/", PageFile(FeedPageNum(i)),
                          "#poem-", ToString(block_data.poem_number)>>],
     content |-> generate_atom_entry_content(block_data)]

\* The element tree write_atom_feed writes to atom.xml.
write_atom_feed(blocks, now) ==
    [title |-> "Everyday Majestic Musings",
     id |-> "https://invariablyhappy.com/",
     updated |-> UtcNow(now),
     author |-> "Avi",
     links |-> <<[rel |-> "self", href |-> "https://invariablyhappy.com/atom.xml"],
                 [rel |-> "alternate", href |-> "https://invariablyhappy.com/"]>>,
     entries |-> [k \in 1..Len(blocks) |-> AtomEntry(blocks[k], k - 1)]]


(***************************************************************************)
(* The inputs of main: the corpora.                                        *)
(***************************************************************************)
Delimiter == <<"\n", "=", "=", "=", "\n">>

\* a poem of two lines
T_plain == <<"R", "o", "s", "e", "s", ",", "\n", "r", "e", "d", ".">>

\* top: v.mp4, c.jpg[9] / link / audio / text with the three special characters
T_top == <<"t", "o", "p", ":", " ", "v", ".", "m", "p", "4", ",", "c", ".", "j",
           "p", "g", "[", "9", "]", "\n",
           "l", "i", "n", "k", ":", "h", ":", "/", "u", "\n",
           "a", "u", "d", "i", "o", ":", "s", ".", "m", "p", "3", "\n",
           "a", "<", "b", "&", "c", ">">>

\* two units, the second with a left image
T_left == <<"x", "\n", "-", "-", "-", "\n",
            "l", "e", "f", "t", ":", "c", "_", "d", ".", "p", "n", "g", "\n", "y">>

\* a media token the parser rejects
T_bad == <<"o", "k", "\n", "t", "o", "p", ":", "[", "1", "]">>

BlockTexts == <<T_plain, T_top, T_left, T_bad>>

GoodTexts == <<T_plain, T_top, T_left>>

\* n blocks, the templates of GoodTexts in turn
LongCorpus(n) ==
    Join([i \in 1..n |-> GoodTexts[((i - 1) % Len(GoodTexts)) + 1]], Delimiter)

SmallCorpora ==
    UNION {{Join([i \in 1..n |-> BlockTexts[f[i]]], Delimiter) :
                f \in [1..n -> 1..Len(BlockTexts)]} : n \in 0..MaxSmall}

Corpora == {LongCorpus(n) : n \in 0..MaxBlocks} \cup SmallCorpora

FsChoices == {{}, {<<"v", ".", "p", "n", "g">>}}

Idle == <<>>

Init ==
    /\ argc \in {1, 2}
    /\ content \in (IF argc < 2 THEN {<<>>} ELSE Corpora)
    /\ clock \in 0..MaxClock
    /\ fs_images \in FsChoices
    /\ pc = "start"
    /\ structured_blocks = <<>>
    /\ total_pages = 0
    /\ page_num = 0
    /\ files = <<>>
    /\ atom = <<>>
    /\ arg = Idle
    /\ ret = Idle

(***************************************************************************)
(* main                                                                    *)
(***************************************************************************)
\* if len(sys.argv) < 2: print usage; sys.exit(1)
MainUsage ==
    /\ pc = "start"
    /\ argc < 2
    /\ pc' = "exit"
    /\ UNCHANGED <<argc, content, clock, fs_images, structured_blocks, total_pages,
                   page_num, files, atom, arg, ret>>

\* A variant of MainParse that swallows the error and keeps the blocks before it.
MainParseSwallowsError ==
    /\ pc = "start"
    /\ argc >= 2
    /\ LET r == parse_poems_to_structured_data(content)
           texts == ContentBlocks(content)
           good == {k \in 0..Len(texts) :
                       NumberBlocks(SubSeq(texts, 1, k)).ok}
           kept == NumberBlocks(SubSeq(texts, 1, MaxOf(good))).blocks
       IN  /\ structured_blocks' = kept
           /\ total_pages' = TotalPages(Len(kept))
           /\ page_num' = 1
           /\ pc' = IF TotalPages(Len(kept)) >= 1 THEN "pages" ELSE "toc"
    /\ UNCHANGED <<argc, content, clock, fs_images, files, atom, arg, ret>>

\* The file is read and parsed; total_pages is computed.  When the parser
\* raises, the ValueError leaves main uncaught and the process ends.
MainParse ==
    /\ pc = "start"
    /\ argc >= 2
    /\ LET r == parse_poems_to_structured_data(content)
       IN  IF ~r.ok
           THEN /\ pc' = "raised"
                /\ UNCHANGED <<structured_blocks, total_pages, page_num>>
           ELSE /\ structured_blocks' = r.blocks
                /\ total_pages' = TotalPages(Len(r.blocks))
                /\ page_num' = 1
                /\ pc' = IF TotalPages(Len(r.blocks)) >= 1 THEN "pages" ELSE "toc"
    /\ UNCHANGED <<argc, content, clock, fs_images, files, atom, arg, ret>>

\* One iteration of: for page_num in range(1, total_pages + 1)
MainWritePage ==
    /\ pc = "pages"
    /\ files' = Append(files, write_page(PageSlice(structured_blocks, page_num),
                                         page_num, total_pages, clock))
    /\ page_num' = page_num + 1
    /\ pc' = IF page_num = total_pages THEN "toc" ELSE "pages"
    /\ UNCHANGED <<argc, content, clock, fs_images, structured_blocks, total_pages,
                   atom, arg, ret>>

MainWriteToc ==
    /\ pc = "toc"
    /\ files' = Append(files, write_table_of_contents(structured_blocks, fs_images,
                                                      clock))
    /\ pc' = "feed"
    /\ UNCHANGED <<argc, content, clock, fs_images, structured_blocks, total_pages,
                   page_num, atom, arg, ret>>

MainWriteFeed ==
    /\ pc = "feed"
    /\ atom' = <<write_atom_feed(structured_blocks, clock)>>
    /\ pc' = "done"
    /\ UNCHANGED <<argc, content, clock, fs_images, structured_blocks, total_pages,
                   page_num, files, arg, ret>>

Next == MainUsage \/ MainParse \/ MainWritePage \/ MainWriteToc \/ MainWriteFeed

Spec == Init /\ [][Next]_vars


(***************************************************************************)
(* Single calls of the parser and of the escaping, on small inputs.        *)
(***************************************************************************)
\* The texts made of at most n of the given pieces.
PieceTexts(pieces, n) ==
    UNION {{Concat(f) : f \in [1..k -> pieces]} : k \in 0..n}

InitCall(inputs) ==
    /\ arg \in inputs
    /\ ret = Idle
    /\ pc = "call"
    /\ argc = 2
    /\ content = <<>>
    /\ clock = 0
    /\ fs_images = {}
    /\ structured_blocks = <<>>
    /\ total_pages = 0
    /\ page_num = 0
    /\ files = <<>>
    /\ atom = <<>>

CallParsePoems ==
    /\ pc = "call"
    /\ ret' = parse_poems_to_structured_data(arg)
    /\ pc' = "return"
    /\ UNCHANGED <<argc, content, clock, fs_images, structured_blocks, total_pages,
                   page_num, files, atom, arg>>

CallParseUnit ==
    /\ pc = "call"
    /\ ret' = parse_poem_unit(arg)
    /\ pc' = "return"
    /\ UNCHANGED <<argc, content, clock, fs_images, structured_blocks, total_pages,
                   page_num, files, atom, arg>>

CallHtmlEscape ==
    /\ pc = "call"
    /\ ret' = html_escape(arg)
    /\ pc' = "escaped"
    /\ UNCHANGED <<argc, content, clock, fs_images, structured_blocks, total_pages,
                   page_num, files, atom, arg>>

\* generate_unit_html on the unit parse_poem_unit makes of the text
CallGenerateUnitHtml ==
    /\ pc = "call"
    /\ LET u == parse_poem_unit(arg)
       IN  ret' = generate_unit_html([links |-> u.links, media |-> u.media,
                                      audio |-> u.audio,
                                      poem_lines |-> u.poem_lines])
    /\ pc' = "rendered"
    /\ UNCHANGED <<argc, content, clock, fs_images, structured_blocks, total_pages,
                   page_num, files, atom, arg>>

\* Texts around the block delimiter.
SplitPieces == {<<"a">>, <<"\n">>, <<"=", "=", "=">>, <<"=">>}

InitSplit == InitCall(PieceTexts(SplitPieces, MaxSplitPieces))

SpecSplit == InitSplit /\ [][CallParsePoems]_vars

\* Units of lines with and without directive prefixes, colons and remainders.
UnitLines ==
    {S_link, S_link \o <<":">>, <<" ">> \o S_link \o <<" ", ":", " ", "u">>,
     S_top, S_top \o <<":">>, S_left \o <<":", "a">>,
     S_audio \o <<":">>, S_audio \o <<":", "s">>,
     <<"x", ":", "y">>, <<" ", " ", "x", " ">>, <<>>}

UnitTexts ==
    UNION {{Join(f, <<"\n">>) : f \in [1..k -> UnitLines]} : k \in 1..MaxUnitLines}

InitUnit == InitCall(UnitTexts)

SpecUnit == InitUnit /\ [][CallParseUnit]_vars

\* A top: or left: line with any short text after the colon.
TokenChars == {"a", "[", "]", "1", ","}

MediaLines ==
    {d \o <<":">> \o t : d \in {S_top, S_left},
                         t \in UNION {[1..k -> TokenChars] : k \in 0..MaxTokenLen}}

InitMedia == InitCall(MediaLines)

SpecMedia == InitMedia /\ [][CallParseUnit]_vars

\* Short texts with the characters html_escape replaces.
EscapeChars == {"&", "<", ">", "a", ";", "\n"}

InitEscape == InitCall(UNION {[1..k -> EscapeChars] : k \in 0..MaxTextLen})

NextEscape == CallHtmlEscape \/ CallGenerateUnitHtml

SpecEscape == InitEscape /\ [][NextEscape]_vars

\* for block_data in blocks: f.write(generate_block_html(block_data)), on the
\* blocks the parser makes of the text.
CallGenerateBlockHtml ==
    /\ pc = "call"
    /\ LET r == parse_poems_to_structured_data(arg)
       IN  IF ~r.ok
           THEN /\ pc' = "raised"
                /\ ret' = Idle
           ELSE /\ pc' = "written"
                /\ ret' = [blocks |-> r.blocks,
                           htmls |-> [k \in 1..Len(r.blocks) |->
                                        generate_block_html(r.blocks[k])]]
    /\ UNCHANGED <<argc, content, clock, fs_images, structured_blocks, total_pages,
                   page_num, files, atom, arg>>

\* first_image = get_first_image(block_data), for the blocks the parser makes
\* of the text.
CallGetFirstImage ==
    /\ pc = "call"
    /\ LET r == parse_poems_to_structured_data(arg)
       IN  IF ~r.ok
           THEN /\ pc' = "raised"
                /\ ret' = Idle
           ELSE /\ pc' = "thumbnails"
                /\ ret' = [blocks |-> r.blocks,
                           first_images |-> [k \in 1..Len(r.blocks) |->
                                               get_first_image(r.blocks[k],
                                                               fs_images)]]
    /\ UNCHANGED <<argc, content, clock, fs_images, structured_blocks, total_pages,
                   page_num, files, atom, arg>>

\* The texts of at most n of the given lines.
LineTexts(lines, n) ==
    UNION {{Join(f, <<"\n">>) : f \in [1..k -> lines]} : k \in 1..n}

\* Lines of a block: links, media groups of both placements (one of them
\* empty), audio, text and the unit delimiter.
LayoutLines ==
    {S_link \o <<":", "u">>,
     S_top \o <<":", "t", ".", "j", "p", "g">>,
     S_top \o <<":", "v", ".", "m", "p", "4", ",", "t", ".", "j", "p", "g",
                "[", "9", "]">>,
     S_left \o <<":", "l", ".", "p", "n", "g">>,
     S_left \o <<":">>,
     S_audio \o <<":", "s", ".", "m", "p", "3">>,
     <<"x">>,
     <<"-", "-", "-">>}

InitLayout == InitCall(LineTexts(LayoutLines, MaxBlockLines))

SpecLayout == InitLayout /\ [][CallGenerateBlockHtml]_vars

\* Lines of a block whose media groups start with a video or with an image,
\* or are empty.
ThumbLines ==
    {S_top \o <<":", "v", ".", "m", "p", "4">>,
     S_top \o <<":", "v", ".", "m", "p", "4", ",", "a", ".", "j", "p", "g">>,
     S_left \o <<":", "w", ".", "w", "e", "b", "m", ",", "c", ".", "g", "i", "f">>,
     S_left \o <<":", "b", ".", "p", "n", "g">>,
     S_top \o <<":">>,
     <<"x">>,
     <<"-", "-", "-">>}

\* The files that may exist under images/.
ThumbFiles == {<<"v", ".", "p", "n", "g">>, <<"v", ".", "g", "i", "f">>,
               <<"w", ".", "j", "p", "g">>}

InitThumb ==
    /\ arg \in LineTexts(ThumbLines, MaxBlockLines)
    /\ fs_images \in SUBSET ThumbFiles
    /\ ret = Idle
    /\ pc = "call"
    /\ argc = 2
    /\ content = <<>>
    /\ clock = 0
    /\ structured_blocks = <<>>
    /\ total_pages = 0
    /\ page_num = 0
    /\ files = <<>>
    /\ atom = <<>>

SpecThumb == InitThumb /\ [][CallGetFirstImage]_vars


(***************************************************************************)
(* What the written files hold, read back from their text.                 *)
(***************************************************************************)
\* The fragments that follow (d = 1) or precede (d = -1) the occurrences of
\* marker among h[lo..hi], in the order of the text.
RECURSIVE Beside(_, _, _, _, _)
Beside(h, marker, d, lo, hi) ==
    IF lo > hi THEN <<>>
    ELSE IF lo = hi THEN (IF h[lo] = marker THEN <<h[lo + d]>> ELSE <<>>)
    ELSE Beside(h, marker, d, lo, (lo + hi) \div 2)
         \o Beside(h, marker, d, ((lo + hi) \div 2) + 1, hi)

After(h, marker) == Beside(h, marker, 1, 1, Len(h) - 1)

Preceding(h, marker) == Beside(h, marker, -1, 2, Len(h))

\* The ids of the poem-block containers of a page: id="poem-<n>"
AnchorIds(h) == After(h, " id=\"poem-")

IsPage(f) == f.name # "poems.html"

IsToc(f) == f.name = "poems.html"

PagesWritten == SelectSeq(files, IsPage)

TocWritten == SelectSeq(files, IsToc)

\* The name of the k-th page file: index.html, then page<k>.html.
NameOfPage(k) == IF k = 1 THEN "index.html" ELSE "page" \o ToString(k) \o ".html"

\* ceil(n / 5), from its definition
CeilPages(n) == CHOOSE t \in 0..n : t * 5 >= n /\ (t = 0 \/ (t - 1) * 5 < n)

RangeOf(q) == {q[k] : k \in 1..Len(q)}

Parsed == pc \in {"pages", "toc", "feed", "done"}

PagesDone == pc \in {"toc", "feed", "done"}

\* C1: the block at 0-based source index i of the N blocks parsed has
\* poemNumber N - i and holds the units of the i-th block of the source; the
\* anchors of the pages written, the link targets of the table of contents
\* and the entry ids of the feed are these numbers, in source order.
C1_PoemNumbers ==
    LET texts == ContentBlocks(content)
        N == Len(texts)
        numbers == [i \in 1..N |-> ToString(N - (i - 1))]
        anchors == Concat([k \in 1..Len(PagesWritten) |->
                              AnchorIds(PagesWritten[k].html)])
    IN  Parsed =>
          /\ Len(structured_blocks) = N
          /\ \A i \in 0..(N - 1) :
                /\ structured_blocks[i + 1].poem_number = N - i
                /\ structured_blocks[i + 1].units =
                      ParseUnits(StripNonEmpty(Split(texts[i + 1],
                                                     <<"-", "-", "-">>))).units
          /\ anchors = SubSeq(numbers, 1, Len(anchors))
          /\ TocWritten # <<>> => After(TocWritten[1].html, "#poem-") = numbers
          /\ atom # <<>> =>
                /\ [i \in 1..Len(atom[1].entries) |-> atom[1].entries[i].id] = numbers
                /\ \A i \in 1..Len(atom[1].entries) :
                      atom[1].entries[i].link.href[4] = numbers[i]

W1_ThreePagesNumbered ==
    /\ pc = "done"
    /\ Len(structured_blocks) >= 11
    /\ Len(PagesWritten) >= 3
    /\ atom[1].entries[1].id = ToString(Len(structured_blocks))

\* C2: main writes ceil(N/5) pages; the k-th page written is index.html for
\* k = 1 and page<k>.html otherwise and renders exactly the blocks at the
\* indices [(k-1)*5, k*5), in source order; every block is rendered on
\* exactly one page, once.
C2_Pagination ==
    LET N == Len(structured_blocks)
        pages == PagesWritten
        anchors == [k \in 1..Len(pages) |-> AnchorIds(pages[k].html)]
        first(k) == (k - 1) * 5
        last(k) == IF k * 5 < N THEN k * 5 ELSE N
    IN  /\ \A k \in 1..Len(pages) :
              /\ pages[k].name = NameOfPage(k)
              /\ anchors[k] = [j \in 1..(last(k) - first(k)) |->
                                  ToString(structured_blocks[first(k) + j].poem_number)]
        /\ PagesDone =>
              /\ Len(pages) = CeilPages(N)
              /\ LET all == Concat(anchors)
                 IN  \A i \in 1..N :
                        Cardinality({j \in 1..Len(all) :
                            all[j] = ToString(structured_blocks[i].poem_number)}) = 1

W2_PartialLastPage ==
    /\ pc = "done"
    /\ Len(structured_blocks) = 12
    /\ Len(PagesWritten) = 3
    /\ Len(AnchorIds(PagesWritten[3].html)) = 2

\* C4: in a run whose input makes the parser raise, no file is ever written;
\* a page is written only once the whole corpus is parsed, the table of
\* contents only after all pages, the feed only after the table of contents.
C4_NoOutputOnError ==
    LET r == parse_poems_to_structured_data(content)
    IN  /\ (argc >= 2 /\ ~r.ok) => (files = <<>> /\ atom = <<>>)
        /\ files # <<>> => (r.ok /\ structured_blocks = r.blocks)
        /\ TocWritten # <<>> =>
              (Len(TocWritten) = 1 /\ Len(PagesWritten) = CeilPages(Len(r.blocks))
               /\ IsToc(files[Len(files)]))
        /\ atom # <<>> => TocWritten # <<>>

\* The parser raised on a later block, after blocks that parse.
W4_RaisedAfterGoodBlock ==
    /\ pc = "raised"
    /\ Len(ContentBlocks(content)) >= 2
    /\ NumberBlocks(SubSeq(ContentBlocks(content), 1, 1)).ok
    /\ files = <<>>

\* C7: page k of totalPages has a Prev link iff k > 1, to index.html for
\* k = 2 and to page<k-1>.html otherwise, a Next link iff k < totalPages, to
\* page<k+1>.html, and "The end." iff k = totalPages; once the pages are
\* written, every link targets a page file written.
C7_Navigation ==
    LET pages == PagesWritten
        total == CeilPages(Len(structured_blocks))
        prev(k) == Preceding(pages[k].html, "\">&laquo; Prev</a> ")
        next(k) == Preceding(pages[k].html, "\">Next &raquo;</a>")
        ends(k) == After(pages[k].html, "The end.\n")
        names == {pages[k].name : k \in 1..Len(pages)}
    IN  \A k \in 1..Len(pages) :
          /\ prev(k) = IF k > 1
                       THEN <<IF k = 2 THEN "index.html"
                              ELSE "page" \o ToString(k - 1) \o ".html">>
                       ELSE <<>>
          /\ next(k) = IF k < total
                       THEN <<"page" \o ToString(k + 1) \o ".html">>
                       ELSE <<>>
          /\ Len(ends(k)) = IF k = total THEN 1 ELSE 0
          /\ PagesDone => (RangeOf(prev(k)) \cup RangeOf(next(k))) \subseteq names

W7_MiddleAndLastPage ==
    /\ pc = "toc"
    /\ Len(PagesWritten) >= 3
    /\ Preceding(PagesWritten[2].html, "\">&laquo; Prev</a> ") = <<"index.html">>
    /\ Preceding(PagesWritten[2].html, "\">Next &raquo;</a>") = <<"page3.html">>
    /\ Preceding(PagesWritten[3].html, "\">&laquo; Prev</a> ") = <<"page2.html">>

\* C8: for every block, the page file of its entry in the table of contents
\* and of its entry in the feed is the page file written with the anchor
\* poem-<poemNumber> of that block.
C8_LinksResolve ==
    LET pages == PagesWritten
        N == Len(structured_blocks)
        anchors == [k \in 1..Len(pages) |-> RangeOf(AnchorIds(pages[k].html))]
        Resolves(file, id) ==
            \E k \in 1..Len(pages) : pages[k].name = file /\ id \in anchors[k]
    IN  /\ TocWritten # <<>> =>
              LET toc == TocWritten[1].html
                  file == Preceding(toc, "#poem-")
                  id == After(toc, "#poem-")
              IN  /\ Len(file) = N
                  /\ \A i \in 1..N :
                        /\ id[i] = ToString(structured_blocks[i].poem_number)
                        /\ Resolves(file[i], id[i])
        /\ atom # <<>> =>
              /\ Len(atom[1].entries) = N
              /\ \A i \in 1..N :
                    LET href == atom[1].entries[i].link.href
                    IN  /\ href[4] = ToString(structured_blocks[i].poem_number)
                        /\ href[3] = "#poem-"
                        /\ Resolves(href[2], href[4])

W8_LinkIntoThirdPage ==
    /\ pc = "done"
    /\ Len(structured_blocks) >= 11
    /\ atom[1].entries[11].link.href[2] = "page3.html"
    /\ Preceding(TocWritten[1].html, "#poem-")[11] = "page3.html"

\* The days from 1970-01-01 to the date of a datetime, month by month.
RECURSIVE DaysBeforeYear(_)
DaysBeforeYear(y) == IF y <= 1970 THEN 0 ELSE DaysBeforeYear(y - 1) + DaysInYear(y - 1)

RECURSIVE DaysBeforeMonth(_, _)
DaysBeforeMonth(y, m) ==
    IF m <= 1 THEN 0 ELSE DaysBeforeMonth(y, m - 1) + DaysInMonth(y, m - 1)

DaysSinceEpoch(t) == DaysBeforeYear(t[1]) + DaysBeforeMonth(t[1], t[2]) + t[3] - 1

IsDate(t) ==
    /\ t[1] >= 1970
    /\ t[2] \in 1..12
    /\ t[3] \in 1..DaysInMonth(t[1], t[2])
    /\ t[4] \in 0..86399

\* C10: the feed has one entry per block, in order; the updated timestamp
\* of an entry is midnight UTC of the day poemNumber days after 1970-01-01,
\* whatever the clock of the run; the timestamps of two blocks are distinct
\* and in the order of their poemNumbers.
C10_FeedTimestamps ==
    atom # <<>> =>
      LET es == atom[1].entries
          N == Len(structured_blocks)
          number(i) == structured_blocks[i].poem_number
      IN  /\ Len(es) = N
          /\ \A i \in 1..N :
                /\ es[i].id = ToString(number(i))
                /\ IsDate(es[i].updated)
                /\ es[i].updated[4] = 0
                /\ DaysSinceEpoch(es[i].updated) = number(i)
          /\ \A i, j \in 1..N :
                /\ (number(i) < number(j)) <=> Before(es[i].updated, es[j].updated)
                /\ (i # j) => es[i].updated # es[j].updated

\* A feed whose entries run over the end of January, written at clock 1.
W10_FeedAcrossMonths ==
    /\ pc = "done"
    /\ clock = 1
    /\ Len(atom[1].entries) >= 32
    /\ atom[1].entries[1].updated[2] = 2
    /\ atom[1].entries[Len(atom[1].entries)].updated = <<1970, 1, 2, 0>>


(***************************************************************************)
(* The media grammar, the delimiters and the lines of a unit.              *)
(***************************************************************************)
\* Whether the whole token is <non-bracket-chars>(\[<digits>\])?
WholeTokenMatches(token) ==
    LET n == PrefixLen(token, RangeOf(token) \ Brackets)
        w == WidthAt(token, n + 1)
    IN  /\ n >= 1
        /\ \/ n = Len(token)
           \/ w # None /\ n + Len(w) + 2 = Len(token)

\* The non-empty comma-separated tokens of a top: or left: line.
TokensOf(line) == StripNonEmpty(Split(Split1(line, <<":">>)[2], <<",">>))

\* C3: parsing a top: or left: directive raises whenever one of its
\* non-empty comma-separated tokens does not match, as a whole token, the
\* grammar <non-bracket-chars>(\[<digits>\])?.
C3_MalformedTokenRaises ==
    pc = "return" =>
      ((\E k \in 1..Len(TokensOf(arg)) : ~WholeTokenMatches(TokensOf(arg)[k]))
          => ~ret.ok)

\* The blocks the text has when only a line that is exactly === delimits.
RECURSIVE GroupAtDelimiterLines(_, _)
GroupAtDelimiterLines(lines, cur) ==
    IF lines = <<>> THEN <<Join(cur, <<"\n">>)>>
    ELSE IF Head(lines) = <<"=", "=", "=">>
    THEN <<Join(cur, <<"\n">>)>> \o GroupAtDelimiterLines(Tail(lines), <<>>)
    ELSE GroupAtDelimiterLines(Tail(lines), Append(cur, Head(lines)))

ContentBlocksByLine(text) ==
    StripNonEmpty(GroupAtDelimiterLines(Split(text, <<"\n">>), <<>>))

\* C5: a new block starts exactly at the lines that are === and nothing
\* else; blank blocks are ignored.
C5_BlocksSplitAtDelimiterLines ==
    pc = "return" => ret = NumberBlocks(ContentBlocksByLine(arg))

Directives == {S_link, S_audio, S_top, S_left}

Keyword(line) == Strip(Split1(line, <<":">>)[1])

HasColon(line) == Find(line, <<":">>) # 0

Remainder(line) == IF HasColon(line) THEN Split1(line, <<":">>)[2] ELSE <<>>

\* A directive line followed by something after its colon.
IsDirectiveWithText(line) ==
    Keyword(line) \in Directives /\ Strip(Remainder(line)) # <<>>

\* A directive line: a directive word and a colon, whatever follows.
IsDirectiveWithColon(line) == Keyword(line) \in Directives /\ HasColon(line)

NoDirectiveWithText(line) == ~IsDirectiveWithText(line)

NoDirectiveWithColon(line) == ~IsDirectiveWithColon(line)

\* The lines parse_poem_unit is given by a unit text.
LinesOf(text) == Split(Strip(text), <<"\n">>)

\* The number of links, audio files and media groups the unit holds.
NonText(u) == Len(u.links) + Len(u.audio) + Len(u.media)

\* C6 as stated: every line that is not a directive with a remainder, a
\* bare directive prefix included, is appended verbatim and in order to the
\* text lines and adds nothing to the links, audio files or media groups.
C6_OnlyDirectivesWithRemainder ==
    pc = "return" =>
      LET texts == SelectSeq(LinesOf(arg), NoDirectiveWithText)
      IN  /\ ret.poem_lines = texts
          /\ NonText(ret) = Len(LinesOf(arg)) - Len(texts)

\* C6, amended: every line that has no colon, or whose text before the first
\* colon is (trimmed) none of link, audio, top, left, is appended verbatim and
\* in order to the text lines and adds nothing to links, audio or media; a
\* directive word followed by a colon is a directive even with nothing after
\* the colon, and is not a text line.
C6_LinesWithoutDirectiveColon ==
    pc = "return" =>
      LET texts == SelectSeq(LinesOf(arg), NoDirectiveWithColon)
      IN  /\ ret.poem_lines = texts
          /\ NonText(ret) = Len(LinesOf(arg)) - Len(texts)

W6_BareWordAndEmptyDirective ==
    /\ pc = "return"
    /\ arg = S_link \o <<"\n">> \o S_top \o <<":", "\n">> \o <<" ", " ", "x", " ">>
    /\ ret.poem_lines = <<S_link>> \o <<<<" ", " ", "x">>>>
    /\ ret.media = <<[placement |-> "top", items |-> <<>>]>>

\* The entity of each character of the text, one after the other.
Entity(c) ==
    IF c = "&" THEN <<"&", "a", "m", "p", ";">>
    ELSE IF c = "<" THEN <<"&", "l", "t", ";">>
    ELSE IF c = ">" THEN <<"&", "g", "t", ";">>
    ELSE <<c>>

EscapedOnce(text) == Concat([i \in 1..Len(text) |-> Entity(text[i])])

\* C9: html_escape replaces every &, < and > of its input by one entity and
\* changes nothing else, so no ampersand of an entity is escaped again; the
\* <pre> block of a unit holds the unit's text lines, joined and escaped once.
C9_EscapedExactlyOnce ==
    /\ pc = "escaped" => ret = EscapedOnce(arg)
    /\ pc = "rendered" =>
          ret = <<"  <pre>">>
                \o EscapedOnce(Join(Split(Strip(arg), <<"\n">>), <<"\n">>))
                \o <<"</pre>\n">>

W9_AllThreeEscaped ==
    /\ pc = "rendered"
    /\ arg = <<"<", "&", ">", "&">>
    /\ Len(ret) = 20



(***************************************************************************)
(* The layout of a rendered unit, read back from the text of its block.    *)
(***************************************************************************)
MediaTags == {"<img src=\"images/", "<video src=\"images/"}

\* The html of the units of a block: what lies between the ordinal label and
\* the closing tag of the block, split at the separators.
UnitHtmlsOf(h) ==
    LET from == Find(h, <<"</div>\n">>) + 1
        inner == SubSeq(h, from, Len(h) - 1)
    IN  IF inner = <<>> THEN <<>> ELSE Split(inner, <<"\n<br>\n">>)

\* The positions of the fragments of h[lo..hi] that are in S.
Where(h, S, lo, hi) == {i \in lo..hi : i \in 1..Len(h) /\ h[i] \in S}

\* The position of the opening tag of the unit container, and of its closing tag.
ContainerOpen(h) == MinOf(Where(h, {"<div class=\""}, 1, Len(h)))

ContainerClose(h) == MinOf(Where(h, {"</div>"}, 1, Len(h)))

\* The file name of the media element that opens at position i.
MediaNameAt(h, i) ==
    LET stop == MinOf(Where(h, {"\" alt=\"", "\" type=\""}, i + 1, Len(h)))
    IN  SubSeq(h, i + 1, stop - 1)

\* The file names of the media elements among h[lo..hi], in the order of the text.
RECURSIVE MediaNames(_, _, _)
MediaNames(h, lo, hi) ==
    LET at == Where(h, MediaTags, lo, hi)
    IN  IF at = {} THEN <<>>
        ELSE <<MediaNameAt(h, MinOf(at))>> \o MediaNames(h, MinOf(at) + 1, hi)

\* The file names of the items of the unit's groups of one placement, in order.
ItemNames(unit_data, placement) ==
    Concat([g \in 1..Len(unit_data.media) |->
              IF unit_data.media[g].placement = placement
              THEN [k \in 1..Len(unit_data.media[g].items) |->
                      unit_data.media[g].items[k].filename]
              ELSE <<>>])

\* The targets of the link anchors of h, in the order of the text.
LinkTargets(h) ==
    LET at == Where(h, {"  <a href=\""}, 1, Len(h))
    IN  {SubSeq(h, i + 1,
                MinOf(Where(h, {"\" target=\"_blank\">"}, i + 1, Len(h))) - 1) :
            i \in at}

\* One container per unit, opened before it is closed.
WellFormedUnit(h) ==
    /\ Cardinality(Where(h, {"<div class=\""}, 1, Len(h))) = 1
    /\ Cardinality(Where(h, {"</div>"}, 1, Len(h))) = 1
    /\ ContainerOpen(h) < ContainerClose(h)

\* Every link anchor of h precedes every media element of h.
LinksBeforeAllMedia(h) ==
    \A l \in Where(h, {"  <a href=\""}, 1, Len(h)) :
        \A m \in Where(h, MediaTags, 1, Len(h)) : l < m

\* The link anchors of h are the unit's, all inside the container; the media
\* of the Top groups precede them, the media inside the container and the
\* poem text follow them.
LinksBetweenTopAndLeftMedia(unit_data, h) ==
    LET o == ContainerOpen(h)
        c == ContainerClose(h)
        links == Where(h, {"  <a href=\""}, 1, Len(h))
    IN  /\ WellFormedUnit(h)
        /\ Cardinality(links) = Len(unit_data.links)
        /\ LinkTargets(h) = RangeOf(unit_data.links)
        /\ MediaNames(h, 1, o - 1) = ItemNames(unit_data, "top")
        /\ \A l \in links :
              /\ o < l /\ l < c
              /\ \A m \in Where(h, MediaTags, 1, o - 1) : m < l
              /\ \A m \in Where(h, MediaTags \cup {"  <pre>"}, o, c) : l < m

Written == pc = "written"

\* C11 as stated: in the HTML rendered for any unit, all of the unit's link
\* anchors appear before any of the unit's media elements, whatever the
\* placement of its media groups.
C11_LinksBeforeAnyMedia ==
    Written =>
        \A b \in 1..Len(ret.blocks) :
            \A k \in 1..Len(ret.blocks[b].units) :
                LinksBeforeAllMedia(UnitHtmlsOf(ret.htmls[b])[k])

\* C11 as amended: in the HTML rendered for any unit, the unit's link anchors
\* are inside the unit container, before every media element of its Left
\* groups and before the poem text; the media elements of its Top groups are
\* emitted before the container and so before the links.
C11_LinksBeforeLeftMedia ==
    Written =>
        \A b \in 1..Len(ret.blocks) :
            /\ Len(UnitHtmlsOf(ret.htmls[b])) = Len(ret.blocks[b].units)
            /\ \A k \in 1..Len(ret.blocks[b].units) :
                  LinksBetweenTopAndLeftMedia(ret.blocks[b].units[k],
                                              UnitHtmlsOf(ret.htmls[b])[k])

\* A unit with a link, a top image and a left image has been rendered.
W11_LinkTopAndLeft ==
    /\ Written
    /\ \E b \in 1..Len(ret.blocks) : \E k \in 1..Len(ret.blocks[b].units) :
          LET u == ret.blocks[b].units[k]
          IN  /\ u.links # <<>>
              /\ ItemNames(u, "top") # <<>>
              /\ ItemNames(u, "left") # <<>>

\* The media of the unit's Top groups, and only they, precede the container;
\* the media of its Left groups, and only they, are inside it, before the
\* poem text; nothing follows the container but audio; the class of the
\* container tells whether the unit has a Left group.
PlacedByGroup(unit_data, h) ==
    LET o == ContainerOpen(h)
        c == ContainerClose(h)
        pres == Where(h, {"  <pre>"}, 1, Len(h))
    IN  /\ WellFormedUnit(h)
        /\ MediaNames(h, 1, o - 1) = ItemNames(unit_data, "top")
        /\ MediaNames(h, o + 1, c - 1) = ItemNames(unit_data, "left")
        /\ MediaNames(h, c + 1, Len(h)) = <<>>
        /\ Cardinality(pres) = (IF unit_data.poem_lines # <<>> THEN 1 ELSE 0)
        /\ \A p \in pres :
              /\ o < p /\ p < c
              /\ \A m \in Where(h, MediaTags, o, c) : m < p
        /\ h[o + 1] \in {"poem-unit", "poem-unit left-image"}
        /\ (h[o + 1] = "poem-unit left-image")
              <=> (\E g \in 1..Len(unit_data.media) :
                      unit_data.media[g].placement = "left")

\* C12: in the HTML rendered for any unit, the media of every Top group is
\* emitted before the unit's poem-unit container and never inside it, the
\* media of every Left group is emitted inside that container before the
\* preformatted poem text, and the container carries the class left-image
\* if and only if the unit has at least one Left media group.
C12_MediaPlacement ==
    Written =>
        \A b \in 1..Len(ret.blocks) :
            /\ Len(UnitHtmlsOf(ret.htmls[b])) = Len(ret.blocks[b].units)
            /\ \A k \in 1..Len(ret.blocks[b].units) :
                  PlacedByGroup(ret.blocks[b].units[k],
                                UnitHtmlsOf(ret.htmls[b])[k])

\* A unit with a top group of two items, a left image and text has been
\* rendered.
W12_TopLeftAndText ==
    /\ Written
    /\ \E b \in 1..Len(ret.blocks) : \E k \in 1..Len(ret.blocks[b].units) :
          LET u == ret.blocks[b].units[k]
          IN  /\ Len(ItemNames(u, "top")) = 2
              /\ ItemNames(u, "left") # <<>>
              /\ u.poem_lines # <<>>

(***************************************************************************)
(* The thumbnail of a block in the table of contents.                      *)
(***************************************************************************)
\* The file names of all media items of a block: unit after unit, group
\* after group, item after item.
AllItemNames(block_data) ==
    LET groups == AllMediaGroups(block_data)
    IN  Concat([g \in 1..Len(groups) |->
                  [k \in 1..Len(groups[g].items) |-> groups[g].items[k].filename]])

\* The existing siblings of a video: its base name with the image
\* extensions, in their fixed order.
ExistingSiblings(filename, fs) ==
    LET candidates == [e \in 1..Len(ImageExtensions) |->
                          splitext(filename)[1] \o ImageExtensions[e]]
    IN  SelectSeq(candidates, LAMBDA name : name \in fs)

\* The thumbnail the first media item alone decides.
DecidedByFirstItem(block_data, fs) ==
    LET names == AllItemNames(block_data)
    IN  IF names = <<>> THEN None
        ELSE IF ~is_video_file(names[1]) THEN names[1]
        ELSE IF ExistingSiblings(names[1], fs) # <<>>
        THEN ExistingSiblings(names[1], fs)[1]
        ELSE None

Thumbnails == pc = "thumbnails"

\* C13: the thumbnail of a block is decided by the first media item of the
\* block: an image is the thumbnail; for a video it is the first existing
\* sibling with the same base name among the image extensions in their
\* order, and when there is none the block has no thumbnail, so that no
\* later media item or group is used instead.
C13_FirstItemDecides ==
    Thumbnails =>
        \A b \in 1..Len(ret.blocks) :
            ret.first_images[b] = DecidedByFirstItem(ret.blocks[b], fs_images)

=============================================================================
